---------------------------- MODULE Spec2Model ----------------------------
(***************************************************************************)
(* A model of the gossip hub personality (gossip/hub/handlers.go) and of   *)
(* the leaf scanner (registers/trillian_client/client.go).                 *)
(*                                                                         *)
(* The hub serves one HTTP request at a time in this model (requests share *)
(* only the read-only registry and options).  A request runs in two steps: *)
(* ServeHTTP and the handler up to the backend RPC, then the backend's     *)
(* reply and the rest of the handler and of ServeHTTP.  The backend is the *)
(* environment: every reply the RPC types allow is possible.               *)
(*                                                                         *)
(* int64 is modelled as a two's complement integer of IntBits bits, since  *)
(* TLC's own integers have 32 bits; all int64 arithmetic goes through Wrap.*)
(***************************************************************************)
EXTENDS Integers, Sequences, FiniteSets, TLC

VARIABLES
    cryptoMap,  \* hubInfo.cryptoMap: source URL -> key of that source log
    opts,       \* hubInfo.opts: MaxGetEntries, ErrorMapper
    pc,         \* "idle", "rpc" (a backend call is in flight), "done"
    req,        \* the HTTP request being served
    calls,      \* the backend RPCs issued while serving req, in order
    rsp,        \* the backend's reply to the last call
    ret,        \* what the handler returned: [status, err]
    w,          \* the http.ResponseWriter: [code, ctype, body]
    spc,        \* Scan: position in the scanner's code
    n,          \* Scan: cursor, the next index to request
    ts,         \* Scan: believed tree size
    m,          \* Scan: position in the current chunk
    chunk,      \* Scan: the reply to the current GetLeavesByRange request
    g,          \* Scan: the current GetLeavesByRange request
    delivered,  \* Scan: the indices passed to the consumer, in order
    lastLeaf,   \* Scan: the leaf of the current chunk passed to the consumer last
    result      \* Scan: what Scan returned ("" while running, "nil", or the consumer's error)

hubVars == <<cryptoMap, opts, pc, req, calls, rsp, ret, w>>
scanVars == <<spc, n, ts, m, chunk, g, delivered, lastLeaf, result>>
vars == <<cryptoMap, opts, pc, req, calls, rsp, ret, w,
          spc, n, ts, m, chunk, g, delivered, lastLeaf, result>>

---------------------------------------------------------------------------
(* Bounds of the model. *)

\* Width of the model's int64.
IntBits == 16
\* Longest byte string of a submission's head data or signature.
MaxBytes == 1
\* Most leaves in a backend reply to the hub's ranged read.
MaxLeaves == 2
\* Most hash nodes in a backend proof.
MaxPath == 2
\* Largest tree size the scanner's backend reports.
MaxTree == 25
\* Largest tree size the backend reports in the runs checked for termination.
MaxFairTree == 9

---------------------------------------------------------------------------
(* int64 and strconv.ParseInt(s, 10, 64). *)

MaxInt == 2^(IntBits - 1) - 1
MinInt == -(2^(IntBits - 1))

\* Two's complement wrap-around of an int64 result.
Wrap(x) == ((x - MinInt) % (2^IntBits)) + MinInt

Digits == <<"0", "1", "2", "3", "4", "5", "6", "7", "8", "9">>

IsDigit(c) == \E d \in 1..10 : Digits[d] = c

DigitVal(c) == (CHOOSE d \in 1..10 : Digits[d] = c) - 1

\* strconv.ParseUint on the digits: -1 for a syntax error, and a value above
\* MaxInt + 1 stands for any out-of-range value.
RECURSIVE ParseUintFrom(_, _)
ParseUintFrom(s, acc) ==
    IF s = <<>> THEN acc
    ELSE IF ~IsDigit(Head(s)) THEN -1
    ELSE LET v == acc * 10 + DigitVal(Head(s))
         IN  ParseUintFrom(Tail(s), IF v > MaxInt + 1 THEN MaxInt + 2 ELSE v)

\* strconv.ParseInt(s, 10, 64): [ok, val]; val is 0 when the parse fails.
ParseInt(s) ==
    IF s = <<>> THEN [ok |-> FALSE, val |-> 0]
    ELSE LET neg == Head(s) = "-"
             body == IF Head(s) \in {"-", "+"} THEN Tail(s) ELSE s
             un == IF body = <<>> THEN -1 ELSE ParseUintFrom(body, 0)
         IN  IF un < 0 THEN [ok |-> FALSE, val |-> 0]
             ELSE IF ~neg /\ un > MaxInt THEN [ok |-> FALSE, val |-> 0]
             ELSE IF neg /\ un > MaxInt + 1 THEN [ok |-> FALSE, val |-> 0]
             ELSE [ok |-> TRUE, val |-> IF neg THEN -un ELSE un]

\* The decimal text of an integer, as a client writes it in a query string.
RECURSIVE UDecimal(_)
UDecimal(v) ==
    IF v < 10 THEN <<Digits[v + 1]>>
    ELSE Append(UDecimal(v \div 10), Digits[(v % 10) + 1])

Decimal(v) == IF v < 0 THEN <<"-">> \o UDecimal(-v) ELSE UDecimal(v)

---------------------------------------------------------------------------
(* Values shared by the handlers. *)

StatusOK == 200
StatusBadRequest == 400
StatusUnauthorized == 401
StatusForbidden == 403
StatusNotFound == 404
StatusMethodNotAllowed == 405
StatusRequestTimeout == 408
StatusConflict == 409
StatusPreconditionFailed == 412
StatusInternalServerError == 500
StatusNotImplemented == 501
StatusServiceUnavailable == 503

defaultMaxGetEntries == 1000

\* A pointer to a message: None is nil, Some(v) points to v.
None == <<>>

Some(v) == <<v>>

\* A slice that tells nil from empty: nil is JSON-encoded as null, empty as [].
NilSlice == [null |-> TRUE, elems |-> <<>>]

Slice(elems) == [null |-> FALSE, elems |-> elems]

\* emptyProof: an explicitly empty slice, JSON-encoded as [] rather than null.
emptyProof == Slice(<<>>)

\* The gRPC status codes an RPC error may carry.
Codes == {"OK", "Canceled", "Unknown", "InvalidArgument", "DeadlineExceeded",
          "NotFound", "AlreadyExists", "PermissionDenied", "ResourceExhausted",
          "FailedPrecondition", "Aborted", "OutOfRange", "Unimplemented",
          "Internal", "Unavailable", "DataLoss", "Unauthenticated"}

\* The errors a backend call may return: "" is nil, "plain" is an error that
\* carries no gRPC status, the others carry the code of that name.
RpcErrors == Codes \cup {"plain"}

\* The values of opts.ErrorMapper: none, or a hook that accepts some errors.
ErrorMappers == {"none", "gone", "dup"}

\* opts.ErrorMapper(err): [ok, status].  The hook "gone" accepts NotFound and
\* plain errors and declines the others; the hook "dup" takes AlreadyExists
\* for a success and declines the others.
ErrorMapper(hook, err) ==
    IF hook = "gone" /\ err \in {"NotFound", "plain"}
    THEN [ok |-> TRUE, status |-> 410]
    ELSE IF hook = "dup" /\ err = "AlreadyExists"
    THEN [ok |-> TRUE, status |-> StatusOK]
    ELSE [ok |-> FALSE, status |-> 0]

\* toHTTPStatus without the override hook.
toHTTPStatus_NoHook(err) ==
    IF err \notin Codes THEN StatusInternalServerError
    ELSE CASE err = "OK" -> StatusOK
           [] err \in {"Canceled", "DeadlineExceeded"} -> StatusRequestTimeout
           [] err \in {"InvalidArgument", "OutOfRange", "AlreadyExists"} -> StatusBadRequest
           [] err = "NotFound" -> StatusNotFound
           [] err \in {"PermissionDenied", "ResourceExhausted"} -> StatusForbidden
           [] err = "Unauthenticated" -> StatusUnauthorized
           [] err = "FailedPrecondition" -> StatusPreconditionFailed
           [] err = "Aborted" -> StatusConflict
           [] err = "Unimplemented" -> StatusNotImplemented
           [] err = "Unavailable" -> StatusServiceUnavailable
           [] OTHER -> StatusInternalServerError

toHTTPStatus(err) ==
    LET hooked == ErrorMapper(opts.ErrorMapper, err)
    IN  IF opts.ErrorMapper # "none" /\ hooked.ok THEN hooked.status
        ELSE IF err \notin Codes THEN StatusInternalServerError
        ELSE CASE err = "OK" -> StatusOK
               [] err \in {"Canceled", "DeadlineExceeded"} -> StatusRequestTimeout
               [] err \in {"InvalidArgument", "OutOfRange", "AlreadyExists"} -> StatusBadRequest
               [] err = "NotFound" -> StatusNotFound
               [] err \in {"PermissionDenied", "ResourceExhausted"} -> StatusForbidden
               [] err = "Unauthenticated" -> StatusUnauthorized
               [] err = "FailedPrecondition" -> StatusPreconditionFailed
               [] err = "Aborted" -> StatusConflict
               [] err = "Unimplemented" -> StatusNotImplemented
               [] err = "Unavailable" -> StatusServiceUnavailable
               [] OTHER -> StatusInternalServerError

\* Byte strings of a submission: head data and signatures.
RECURSIVE BytesUpTo(_)
BytesUpTo(k) ==
    IF k = 0 THEN {<<>>}
    ELSE LET shorter == BytesUpTo(k - 1)
         IN  shorter \cup {Append(b, x) : b \in {s \in shorter : Len(s) = k - 1}, x \in {0, 1}}

Bytes == BytesUpTo(MaxBytes)

\* Source URLs a client may name, as the bytes of the string.
URLs == {<<1>>, <<2>>}

\* Keys of source logs.
Keys == {0, 1}

\* The registries a hub may be built with: any set of URLs, each with a key.
Registries == UNION {[D -> Keys] : D \in SUBSET URLs}

RECURSIVE Sum(_)
Sum(b) == IF b = <<>> THEN 0 ELSE Head(b) + Sum(Tail(b))

\* The one signature of data that verifies under key.
Sign(key, data) == <<key, Sum(data) % 2>>

\* tcrypto.Verify(pubKey, hasher, data, sig): TRUE when it returns no error.
Verify(key, data, sig) == sig = Sign(key, data)

\* The signatures a client may send: short byte strings and real signatures.
Signatures == Bytes \cup {Sign(k, d) : k \in Keys, d \in Bytes}

---------------------------------------------------------------------------
(* tls.Marshal and tls.Unmarshal of api.HubLeafEntry: three byte strings,   *)
(* each behind a two-byte big-endian length.                                *)

MaxFieldLen == 65535

Prefixed(b) == <<Len(b) \div 256, Len(b) % 256>> \o b

\* [ok, data]
tlsMarshal(leaf) ==
    IF \E f \in {"SourceURL", "HeadData", "Signature"} : Len(leaf[f]) > MaxFieldLen
    THEN [ok |-> FALSE, data |-> <<>>]
    ELSE [ok |-> TRUE,
          data |-> Prefixed(leaf.SourceURL) \o Prefixed(leaf.HeadData) \o Prefixed(leaf.Signature)]

\* One length-prefixed field off the front of b: [ok, val, rest].
ReadField(b) ==
    IF Len(b) < 2 THEN [ok |-> FALSE, val |-> <<>>, rest |-> <<>>]
    ELSE LET k == b[1] * 256 + b[2]
         IN  IF Len(b) < 2 + k THEN [ok |-> FALSE, val |-> <<>>, rest |-> <<>>]
             ELSE [ok |-> TRUE, val |-> SubSeq(b, 3, 2 + k), rest |-> SubSeq(b, 3 + k, Len(b))]

\* [ok, leaf, rest]
tlsUnmarshal(b) ==
    LET f1 == ReadField(b)
        f2 == ReadField(f1.rest)
        f3 == ReadField(f2.rest)
    IN  IF f1.ok /\ f2.ok /\ f3.ok
        THEN [ok |-> TRUE,
              leaf |-> [SourceURL |-> f1.val, HeadData |-> f2.val, Signature |-> f3.val],
              rest |-> f3.rest]
        ELSE [ok |-> FALSE,
              leaf |-> [SourceURL |-> <<>>, HeadData |-> <<>>, Signature |-> <<>>],
              rest |-> <<>>]

\* sha256.Sum256 of the leaf data: the identity hash is a function of the data.
Sum256(data) == <<"sha256", data>>

---------------------------------------------------------------------------
(* The http.ResponseWriter and what handlers return. *)

\* A fresh ResponseWriter: no status line written yet.
NewWriter == [code |-> 0, ctype |-> "", body |-> <<>>]

\* No handler ran (ServeHTTP answered by itself), or none has returned yet.
NoRet == [status |-> 0, err |-> ""]

NoRsp == [err |-> ""]

\* w.WriteHeader(code): the first status line stands.
WriteHeader(wr, code) == IF wr.code = 0 THEN [wr EXCEPT !.code = code] ELSE wr

\* w.Header().Set(contentTypeHeader, ...): no effect once the header is out.
SetContentType(wr, ct) == IF wr.code = 0 THEN [wr EXCEPT !.ctype = ct] ELSE wr

\* w.Write(data): an implicit WriteHeader(200); the data is out when wok.
Write(wr, data, wok) ==
    LET wh == WriteHeader(wr, StatusOK)
    IN  IF wok THEN [wh EXCEPT !.body = Append(wh.body, data)] ELSE wh

\* http.Error(w, "<status text>\n<err>", statusCode)
sendHTTPError(wr, statusCode, err) ==
    Write(WriteHeader(SetContentType(wr, "text/plain"), statusCode),
          [text |-> statusCode, detail |-> err], TRUE)

\* What a handler hands back: its status, its error ("" is nil), the writer.
Return(status, err, wr) == [kind |-> "ret", status |-> status, err |-> err, w |-> wr]

\* A handler that dereferences a nil pointer: net/http recovers the panic and
\* drops the connection; ServeHTTP's tail does not run.
Panic == [kind |-> "panic"]

\* A handler that stops at a backend call: the RPC it issues.
Rpc(call) == [kind |-> "rpc", call |-> call]

\* The tail all handlers share: set the JSON content type, write the
\* marshalled response, 500 when the write fails, else 200.
WriteJSON(wr, jsonRsp, wok) ==
    LET w1 == Write(SetContentType(wr, "application/json"), jsonRsp, wok)
    IN  IF wok THEN Return(StatusOK, "", w1)
        ELSE Return(StatusInternalServerError, "failed to write response data", w1)

---------------------------------------------------------------------------
(* addLogHead *)

\* The bodies a client may post: unreadable, not JSON, or an AddLogHeadRequest.
AddLogHeadBodies ==
    [kind : {"unreadable", "malformed"}, SourceURL : {<<>>}, HeadData : {<<>>}, Signature : {<<>>}]
    \cup [kind : {"json"}, SourceURL : URLs, HeadData : Bytes, Signature : Signatures]

\* The leaf built with the head data and the signature in each other's place.
HubLeafOf_Swapped(body) ==
    [SourceURL |-> body.SourceURL, HeadData |-> body.Signature, Signature |-> body.HeadData]

\* The leaf addLogHead builds for a parsed request.
HubLeafOf(body) ==
    [SourceURL |-> body.SourceURL, HeadData |-> body.HeadData, Signature |-> body.Signature]

\* addLogHead with the ok of the registry lookup ignored: an unknown source
\* gets the zero key.
addLogHeadStart_NoLookup(r, wok) ==
    IF r.body.kind = "unreadable"
    THEN Return(StatusBadRequest, "failed to read add-log-head body", NewWriter)
    ELSE IF r.body.kind = "malformed"
    THEN Return(StatusBadRequest, "failed to parse add-log-head body", NewWriter)
    ELSE LET key == IF r.body.SourceURL \in DOMAIN cryptoMap
                    THEN cryptoMap[r.body.SourceURL] ELSE 0
         IN  IF ~Verify(key, r.body.HeadData, r.body.Signature)
             THEN Return(StatusBadRequest, "failed to validate signature", NewWriter)
             ELSE Rpc([rpc |-> "QueueLeaves",
                       Leaves |-> <<[LeafValue |-> tlsMarshal(HubLeafOf(r.body)).data,
                                     LeafIdentityHash |-> Sum256(tlsMarshal(HubLeafOf(r.body)).data)]>>])

\* addLogHead with the error of Verify logged and not returned.
addLogHeadStart_NoVerify(r, wok) ==
    IF r.body.kind = "unreadable"
    THEN Return(StatusBadRequest, "failed to read add-log-head body", NewWriter)
    ELSE IF r.body.kind = "malformed"
    THEN Return(StatusBadRequest, "failed to parse add-log-head body", NewWriter)
    ELSE IF r.body.SourceURL \notin DOMAIN cryptoMap
    THEN Return(StatusNotFound, "unknown source log", NewWriter)
    ELSE Rpc([rpc |-> "QueueLeaves",
              Leaves |-> <<[LeafValue |-> tlsMarshal(HubLeafOf(r.body)).data,
                            LeafIdentityHash |-> Sum256(tlsMarshal(HubLeafOf(r.body)).data)]>>])

\* addLogHead taking the identity hash over the head data, not the leaf.
addLogHeadStart_HashHeadData(r, wok) ==
    IF r.body.kind = "unreadable"
    THEN Return(StatusBadRequest, "failed to read add-log-head body", NewWriter)
    ELSE IF r.body.kind = "malformed"
    THEN Return(StatusBadRequest, "failed to parse add-log-head body", NewWriter)
    ELSE IF r.body.SourceURL \notin DOMAIN cryptoMap
    THEN Return(StatusNotFound, "unknown source log", NewWriter)
    ELSE IF ~Verify(cryptoMap[r.body.SourceURL], r.body.HeadData, r.body.Signature)
    THEN Return(StatusBadRequest, "failed to validate signature", NewWriter)
    ELSE LET leafData == tlsMarshal(HubLeafOf(r.body))
         IN  IF ~leafData.ok
             THEN Return(StatusBadRequest, "failed to create hub leaf", NewWriter)
             ELSE Rpc([rpc |-> "QueueLeaves",
                       Leaves |-> <<[LeafValue |-> leafData.data,
                                     LeafIdentityHash |-> Sum256(r.body.HeadData)]>>])

\* addLogHead up to its QueueLeaves call.
addLogHeadStart(r, wok) ==
    IF r.body.kind = "unreadable"
    THEN Return(StatusBadRequest, "failed to read add-log-head body", NewWriter)
    ELSE IF r.body.kind = "malformed"
    THEN Return(StatusBadRequest, "failed to parse add-log-head body", NewWriter)
    ELSE IF r.body.SourceURL \notin DOMAIN cryptoMap
    THEN Return(StatusNotFound, "unknown source log", NewWriter)
    ELSE IF ~Verify(cryptoMap[r.body.SourceURL], r.body.HeadData, r.body.Signature)
    THEN Return(StatusBadRequest, "failed to validate signature", NewWriter)
    ELSE LET leafData == tlsMarshal(HubLeafOf(r.body))
         IN  IF ~leafData.ok
             THEN Return(StatusBadRequest, "failed to create hub leaf", NewWriter)
             ELSE Rpc([rpc |-> "QueueLeaves",
                       Leaves |-> <<[LeafValue |-> leafData.data,
                                     LeafIdentityHash |-> Sum256(leafData.data)]>>])

\* The replies of QueueLeaves: an error, a nil response, or a response with
\* queued leaves, each fresh ("OK") or a duplicate ("AlreadyExists").
RECURSIVE SeqsUpTo(_, _)
SeqsUpTo(S, k) ==
    IF k = 0 THEN {<<>>}
    ELSE LET shorter == SeqsUpTo(S, k - 1)
         IN  shorter \cup {Append(q, x) : q \in {t \in shorter : Len(t) = k - 1}, x \in S}

QueueLeavesReplies ==
    [err : RpcErrors, rsp : {None}]
    \cup {[err |-> "", rsp |-> None]}
    \cup {[err |-> "", rsp |-> Some([QueuedLeaves |-> q])] : q \in SeqsUpTo({"OK", "AlreadyExists"}, 2)}

\* addLogHead answering a duplicate with a conflict.
addLogHeadFinish_TellDuplicate(r, call, reply, wok) ==
    IF reply.err # ""
    THEN Return(toHTTPStatus(reply.err), "backend QueueLeaves request failed", NewWriter)
    ELSE IF reply.rsp = None
    THEN Return(StatusInternalServerError, "missing QueueLeaves response", NewWriter)
    ELSE IF Len(reply.rsp[1].QueuedLeaves) # 1
    THEN Return(StatusInternalServerError, "unexpected QueueLeaves response leaf count", NewWriter)
    ELSE IF reply.rsp[1].QueuedLeaves[1] = "AlreadyExists"
    THEN Return(StatusConflict, "duplicate leaf", NewWriter)
    ELSE Return(StatusOK, "", NewWriter)

\* addLogHead from the reply of QueueLeaves on.
addLogHeadFinish(r, call, reply, wok) ==
    IF reply.err # ""
    THEN Return(toHTTPStatus(reply.err), "backend QueueLeaves request failed", NewWriter)
    ELSE IF reply.rsp = None
    THEN Return(StatusInternalServerError, "missing QueueLeaves response", NewWriter)
    ELSE IF Len(reply.rsp[1].QueuedLeaves) # 1
    THEN Return(StatusInternalServerError, "unexpected QueueLeaves response leaf count", NewWriter)
    ELSE Return(StatusOK, "", NewWriter)

---------------------------------------------------------------------------
(* Query parameters and backend replies of the GET handlers.  A backend     *)
(* reply is a decoded protobuf message: a message field may be nil, the     *)
(* elements of a repeated field are never nil.                              *)

\* Integers a client may write in a query string.
SampleInts == {-1, 0, 1, defaultMaxGetEntries, defaultMaxGetEntries + 1,
               MaxInt, MaxInt + 1, MinInt - 1}

\* The values of a query parameter: <<>> is a missing or empty parameter.
FormValues ==
    {Decimal(v) : v \in SampleInts}
    \cup {<<>>, <<"x">>, <<"1", "x">>, <<"-">>, <<"+", "1">>}

\* r.FormValue(name)
FormValue(r, name) == IF name \in DOMAIN r.form THEN r.form[name] ELSE <<>>

\* Tree sizes a backend reply may carry in its signed log root.
TreeSizes == {0, 1, MaxInt}

SignedLogRoots == {None} \cup {Some(slr) : slr \in [TreeSize : TreeSizes]}

\* sha256.Size
Sha256Size == 32

\* A byte string of k bytes.
Node(k) == [i \in 1..k |-> 0]

\* Hash nodes a backend proof may hold: of the digest's length or not.
Nodes == {Node(Sha256Size), Node(Sha256Size - 1), Node(Sha256Size + 1)}

\* The Hashes field of a proof: nil, or up to MaxPath nodes.
Paths == {NilSlice} \cup {Slice(p) : p \in SeqsUpTo(Nodes, MaxPath)}

\* checkHashSizes looking at the first node only.
checkHashSizes_FirstNode(path) ==
    \A i \in 1..Len(path.elems) : i = 1 => Len(path.elems[i]) = Sha256Size

\* checkHashSizes(path): TRUE when it returns no error.
checkHashSizes(path) ==
    \A i \in 1..Len(path.elems) : Len(path.elems[i]) = Sha256Size

---------------------------------------------------------------------------
(* getSTH *)

GetLatestSignedLogRootReplies ==
    [err : RpcErrors, SignedLogRoot : {None}]
    \cup {[err |-> "", SignedLogRoot |-> None]}
    \cup {[err |-> "", SignedLogRoot |-> Some(slr)] : slr \in [LogRoot : Bytes, LogRootSignature : Bytes]}

\* GetLogRoot: [ok, slr]
GetLogRoot(reply) ==
    IF reply.err # "" THEN [ok |-> FALSE, err |-> "backend GetLatestSignedLogRoot request failed"]
    ELSE IF reply.SignedLogRoot = None THEN [ok |-> FALSE, err |-> "no log root returned"]
    ELSE [ok |-> TRUE, slr |-> reply.SignedLogRoot[1]]

getSTHStart(r, wok) == Rpc([rpc |-> "GetLatestSignedLogRoot"])

getSTHFinish(r, call, reply, wok) ==
    LET got == GetLogRoot(reply)
    IN  IF ~got.ok THEN Return(StatusInternalServerError, got.err, NewWriter)
        ELSE WriteJSON(NewWriter,
                       [HeadData |-> got.slr.LogRoot, Signature |-> got.slr.LogRootSignature],
                       wok)

---------------------------------------------------------------------------
(* getSTHConsistency *)

\* parseGetSTHConsistencyRange without its check of second < first.
parseGetSTHConsistencyRange_NoOrder(r) ==
    LET firstVal == FormValue(r, "first")
        secondVal == FormValue(r, "second")
        first == ParseInt(firstVal)
        second == ParseInt(secondVal)
        bad == [ok |-> FALSE, first |-> 0, second |-> 0]
    IN  IF firstVal = <<>> THEN bad
        ELSE IF secondVal = <<>> THEN bad
        ELSE IF ~first.ok THEN bad
        ELSE IF ~second.ok THEN bad
        ELSE IF first.val < 0 \/ second.val < 0 THEN bad
        ELSE [ok |-> TRUE, first |-> first.val, second |-> second.val]

\* parseGetSTHConsistencyRange: [ok, first, second]
parseGetSTHConsistencyRange(r) ==
    LET firstVal == FormValue(r, "first")
        secondVal == FormValue(r, "second")
        first == ParseInt(firstVal)
        second == ParseInt(secondVal)
        bad == [ok |-> FALSE, first |-> 0, second |-> 0]
    IN  IF firstVal = <<>> THEN bad
        ELSE IF secondVal = <<>> THEN bad
        ELSE IF ~first.ok THEN bad
        ELSE IF ~second.ok THEN bad
        ELSE IF first.val < 0 \/ second.val < 0 THEN bad
        ELSE IF second.val < first.val THEN bad
        ELSE [ok |-> TRUE, first |-> first.val, second |-> second.val]

\* getSTHConsistency asking the backend whatever first is.
getSTHConsistencyStart_AlwaysAsk(r, wok) ==
    LET range == parseGetSTHConsistencyRange(r)
    IN  IF ~range.ok
        THEN Return(StatusBadRequest, "failed to parse consistency range", NewWriter)
        ELSE Rpc([rpc |-> "GetConsistencyProof",
                  FirstTreeSize |-> range.first, SecondTreeSize |-> range.second])

getSTHConsistencyStart(r, wok) ==
    LET range == parseGetSTHConsistencyRange(r)
    IN  IF ~range.ok
        THEN Return(StatusBadRequest, "failed to parse consistency range", NewWriter)
        ELSE IF range.first # 0
        THEN Rpc([rpc |-> "GetConsistencyProof",
                  FirstTreeSize |-> range.first, SecondTreeSize |-> range.second])
        ELSE WriteJSON(NewWriter, [Consistency |-> emptyProof], wok)

GetConsistencyProofReplies ==
    [err : RpcErrors, SignedLogRoot : {None}, Proof : {None}]
    \cup [err : {""}, SignedLogRoot : SignedLogRoots,
          Proof : {None} \cup {Some(p) : p \in [Hashes : Paths]}]

\* getSTHConsistency checking the proof's hashes before the tree size.
getSTHConsistencyFinish_HashesFirst(r, call, reply, wok) ==
    LET second == call.SecondTreeSize
    IN  IF reply.err # ""
        THEN Return(toHTTPStatus(reply.err), "backend GetConsistencyProof request failed", NewWriter)
        ELSE IF reply.Proof = None
        THEN Panic
        ELSE IF ~checkHashSizes(reply.Proof[1].Hashes)
        THEN Return(StatusInternalServerError, "backend returned invalid proof", NewWriter)
        ELSE IF reply.SignedLogRoot # None /\ reply.SignedLogRoot[1].TreeSize < second
        THEN Return(StatusBadRequest, "need tree size for proof", NewWriter)
        ELSE WriteJSON(NewWriter,
                       [Consistency |-> IF reply.Proof[1].Hashes.null THEN emptyProof
                                        ELSE reply.Proof[1].Hashes],
                       wok)

getSTHConsistencyFinish(r, call, reply, wok) ==
    LET second == call.SecondTreeSize
    IN  IF reply.err # ""
        THEN Return(toHTTPStatus(reply.err), "backend GetConsistencyProof request failed", NewWriter)
        ELSE IF reply.SignedLogRoot # None /\ reply.SignedLogRoot[1].TreeSize < second
        THEN Return(StatusBadRequest, "need tree size for proof", NewWriter)
        ELSE IF reply.Proof = None
        THEN Panic
        ELSE IF ~checkHashSizes(reply.Proof[1].Hashes)
        THEN Return(StatusInternalServerError, "backend returned invalid proof", NewWriter)
        ELSE WriteJSON(NewWriter,
                       [Consistency |-> IF reply.Proof[1].Hashes.null THEN emptyProof
                                        ELSE reply.Proof[1].Hashes],
                       wok)

---------------------------------------------------------------------------
(* getProofByHash *)

\* The values of the hash parameter: missing, and base64 text good and bad.
HashValues == {<<>>, <<"!">>, <<"A", "A">>, <<"A", "A", "=", "=">>, <<"A", "Q", "=", "=">>}

\* base64.StdEncoding.DecodeString on the hash values: [ok, val].  Standard
\* encoding needs its padding, and "!" is outside its alphabet.
DecodeString(s) ==
    CASE s = <<>> -> [ok |-> TRUE, val |-> <<>>]
      [] s = <<"A", "A", "=", "=">> -> [ok |-> TRUE, val |-> <<0>>]
      [] s = <<"A", "Q", "=", "=">> -> [ok |-> TRUE, val |-> <<1>>]
      [] OTHER -> [ok |-> FALSE, val |-> <<>>]

\* getProofByHash accepting a tree_size of zero.
getProofByHashStart_ZeroSize(r, wok) ==
    LET hash == FormValue(r, "hash")
        leafHash == DecodeString(hash)
        treeSize == ParseInt(FormValue(r, "tree_size"))
    IN  IF Len(hash) = 0
        THEN Return(StatusBadRequest, "missing / empty hash param", NewWriter)
        ELSE IF ~leafHash.ok
        THEN Return(StatusBadRequest, "invalid base64 hash", NewWriter)
        ELSE IF ~treeSize.ok \/ treeSize.val < 0
        THEN Return(StatusBadRequest, "missing or invalid tree_size", NewWriter)
        ELSE Rpc([rpc |-> "GetInclusionProofByHash", LeafHash |-> leafHash.val,
                  TreeSize |-> treeSize.val, OrderBySequence |-> TRUE])

getProofByHashStart(r, wok) ==
    LET hash == FormValue(r, "hash")
        leafHash == DecodeString(hash)
        treeSize == ParseInt(FormValue(r, "tree_size"))
    IN  IF Len(hash) = 0
        THEN Return(StatusBadRequest, "missing / empty hash param", NewWriter)
        ELSE IF ~leafHash.ok
        THEN Return(StatusBadRequest, "invalid base64 hash", NewWriter)
        ELSE IF ~treeSize.ok \/ treeSize.val < 1
        THEN Return(StatusBadRequest, "missing or invalid tree_size", NewWriter)
        ELSE Rpc([rpc |-> "GetInclusionProofByHash", LeafHash |-> leafHash.val,
                  TreeSize |-> treeSize.val, OrderBySequence |-> TRUE])

\* The proofs of a reply: none, one, or one followed by a second proof.
InclusionProofs == [LeafIndex : {3}, Hashes : Paths]

SecondProof == [LeafIndex |-> 4, Hashes |-> Slice(<<Node(Sha256Size - 1)>>)]

GetInclusionProofByHashReplies ==
    [err : RpcErrors, SignedLogRoot : {None}, Proof : {<<>>}]
    \cup [err : {""}, SignedLogRoot : SignedLogRoots,
          Proof : {<<>>} \cup {<<p>> : p \in InclusionProofs}
                  \cup {<<p, SecondProof>> : p \in InclusionProofs}]

\* getProofByHash without its check for a reply with no proof: an absent
\* proof is answered like an empty one.
getProofByHashFinish_NoProofCheck(r, call, reply, wok) ==
    LET treeSize == call.TreeSize
    IN  IF reply.err # ""
        THEN Return(toHTTPStatus(reply.err), "backend GetInclusionProofByHash request failed", NewWriter)
        ELSE IF reply.SignedLogRoot # None /\ reply.SignedLogRoot[1].TreeSize < treeSize
        THEN Return(StatusNotFound, "log returned tree size smaller than expected", NewWriter)
        ELSE IF Len(reply.Proof) = 0
        THEN WriteJSON(NewWriter, [LeafIndex |-> 0, AuditPath |-> emptyProof], wok)
        ELSE IF ~checkHashSizes(reply.Proof[1].Hashes)
        THEN Return(StatusInternalServerError, "backend returned invalid proof", NewWriter)
        ELSE WriteJSON(NewWriter,
                       [LeafIndex |-> reply.Proof[1].LeafIndex,
                        AuditPath |-> IF reply.Proof[1].Hashes.null THEN emptyProof
                                      ELSE reply.Proof[1].Hashes],
                       wok)

getProofByHashFinish(r, call, reply, wok) ==
    LET treeSize == call.TreeSize
    IN  IF reply.err # ""
        THEN Return(toHTTPStatus(reply.err), "backend GetInclusionProofByHash request failed", NewWriter)
        ELSE IF reply.SignedLogRoot # None /\ reply.SignedLogRoot[1].TreeSize < treeSize
        THEN Return(StatusNotFound, "log returned tree size smaller than expected", NewWriter)
        ELSE IF Len(reply.Proof) = 0
        THEN Return(StatusNotFound, "backend did not return a proof", NewWriter)
        ELSE IF ~checkHashSizes(reply.Proof[1].Hashes)
        THEN Return(StatusInternalServerError, "backend returned invalid proof", NewWriter)
        ELSE WriteJSON(NewWriter,
                       [LeafIndex |-> reply.Proof[1].LeafIndex,
                        AuditPath |-> IF reply.Proof[1].Hashes.null THEN emptyProof
                                      ELSE reply.Proof[1].Hashes],
                       wok)

---------------------------------------------------------------------------
(* getEntries *)

\* parseGetEntriesRange(r, maxRange): [ok, start, end]
parseGetEntriesRange(r, maxRange) ==
    LET start == ParseInt(FormValue(r, "start"))
        end == ParseInt(FormValue(r, "end"))
        bad == [ok |-> FALSE, start |-> 0, end |-> 0]
    IN  IF ~start.ok THEN bad
        ELSE IF ~end.ok THEN bad
        ELSE IF start.val < 0 \/ end.val < 0 THEN bad
        ELSE IF start.val > end.val THEN bad
        ELSE LET count == Wrap(Wrap(end.val - start.val) + 1)
             IN  [ok |-> TRUE, start |-> start.val,
                  end |-> IF count > maxRange
                          THEN Wrap(Wrap(start.val + maxRange) - 1)
                          ELSE end.val]

\* The range getEntries asks the backend for.
maxRangeOf(o) == IF o.MaxGetEntries = 0 THEN defaultMaxGetEntries ELSE o.MaxGetEntries

getEntriesStart(r, wok) ==
    LET range == parseGetEntriesRange(r, maxRangeOf(opts))
        count == Wrap(Wrap(range.end + 1) - range.start)
    IN  IF ~range.ok
        THEN Return(StatusBadRequest, "bad range on get-entries request", NewWriter)
        ELSE Rpc([rpc |-> "GetLeavesByRange", StartIndex |-> range.start, Count |-> count])

\* Leaf payloads a backend may hold: a canonical leaf, one cut short, one
\* with a byte after it.
CanonicalLeaf == tlsMarshal([SourceURL |-> <<1>>, HeadData |-> <<0>>, Signature |-> <<1, 0>>]).data

LeafValues == {CanonicalLeaf,
               SubSeq(CanonicalLeaf, 1, Len(CanonicalLeaf) - 1),
               Append(CanonicalLeaf, 0)}

\* Indices the backend may put on a leaf.
LeafIndexes == {0, 1, 2}

\* The leaves of a reply: a canonical leaf at any index, any payload at index 1.
LogLeaves ==
    [LeafIndex : LeafIndexes, LeafValue : {CanonicalLeaf}]
    \cup [LeafIndex : {1}, LeafValue : LeafValues]

GetLeavesByRangeReplies ==
    [err : RpcErrors, SignedLogRoot : {None}, Leaves : {<<>>}]
    \cup [err : {""}, SignedLogRoot : SignedLogRoots, Leaves : SeqsUpTo(LogLeaves, MaxLeaves)]

\* The index check on the first leaf only.
LeafIndexOK_FirstOnly(leaves, start) ==
    \A i \in 1..Len(leaves) : i = 1 => leaves[i].LeafIndex = Wrap(start + (i - 1))

\* getEntries' first loop: every leaf has the index of its place in the range.
LeafIndexOK(leaves, start) ==
    \A i \in 1..Len(leaves) : leaves[i].LeafIndex = Wrap(start + (i - 1))

\* The decode check without the look at the bytes left over.
LeafValueOK_IgnoreRest(leaf) == tlsUnmarshal(leaf.LeafValue).ok

\* getEntries' second loop, on one leaf: it decodes and nothing follows it.
LeafValueOK(leaf) ==
    LET got == tlsUnmarshal(leaf.LeafValue)
    IN  got.ok /\ Len(got.rest) = 0

getEntriesFinish(r, call, reply, wok) ==
    LET start == call.StartIndex
        count == call.Count
    IN  IF reply.err # ""
        THEN Return(toHTTPStatus(reply.err), "backend GetLeavesByRange request failed", NewWriter)
        ELSE IF reply.SignedLogRoot # None /\ reply.SignedLogRoot[1].TreeSize <= start
        THEN Return(StatusBadRequest, "need larger tree size to get leaves", NewWriter)
        ELSE IF Len(reply.Leaves) > count
        THEN Return(StatusInternalServerError, "backend returned too many leaves", NewWriter)
        ELSE IF ~LeafIndexOK(reply.Leaves, start)
        THEN Return(StatusInternalServerError, "backend returned unexpected leaf index", NewWriter)
        ELSE IF \E i \in 1..Len(reply.Leaves) : ~LeafValueOK(reply.Leaves[i])
        THEN Return(StatusInternalServerError, "bad Merkle leaf from backend", NewWriter)
        ELSE WriteJSON(NewWriter,
                       [Entries |-> IF reply.Leaves = <<>> THEN NilSlice
                                    ELSE Slice([i \in 1..Len(reply.Leaves) |->
                                                  [LeafData |-> reply.Leaves[i].LeafValue]])],
                       wok)

---------------------------------------------------------------------------
(* getLogKeys *)

\* The public key bytes of a key.
pubKeyData(key) == <<key>>

\* The entries are built by ranging over a map: a set, in no order.
getLogKeysStart(r, wok) ==
    WriteJSON(NewWriter,
              [Entries |-> {[URL |-> url, PubKey |-> pubKeyData(cryptoMap[url])] :
                              url \in DOMAIN cryptoMap}],
              wok)

---------------------------------------------------------------------------
(* AppHandler.ServeHTTP and the requests a client may send. *)

Endpoints == {"add-log-head", "get-sth", "get-sth-consistency",
              "get-proof-by-hash", "get-entries", "get-log-keys"}

\* AppHandler.method of each entrypoint, as Handlers binds it.
MethodOf(ep) == IF ep = "add-log-head" THEN "POST" ELSE "GET"

NoBody == [kind |-> "none", SourceURL |-> <<>>, HeadData |-> <<>>, Signature |-> <<>>]

NoForm == <<>>

\* The query parameters a client may send to each GET entrypoint.
FormsOf(ep) ==
    CASE ep = "get-sth-consistency" -> [{"first", "second"} -> FormValues]
      [] ep = "get-proof-by-hash" ->
            {[hash |-> h, tree_size |-> t] : h \in HashValues, t \in FormValues}
      [] ep = "get-entries" -> [{"start", "end"} -> FormValues]
      [] OTHER -> {NoForm}

BodiesOf(ep) == IF ep = "add-log-head" THEN AddLogHeadBodies ELSE {NoBody}

\* The requests to an entrypoint: with the wrong method, with a query string
\* that does not parse, and with every body and every parameter values.
RequestsOf(ep) ==
    [ep : {ep}, method : {"GET", "POST"} \ {MethodOf(ep)}, formOK : {TRUE},
     body : {NoBody}, form : {NoForm}]
    \cup [ep : {ep}, method : {MethodOf(ep)} \cap {"GET"}, formOK : {FALSE},
          body : {NoBody}, form : {NoForm}]
    \cup [ep : {ep}, method : {MethodOf(ep)}, formOK : {TRUE},
          body : BodiesOf(ep), form : FormsOf(ep)]

\* a.handler up to its backend call, if it makes one.
HandlerStart(r, wok) ==
    CASE r.ep = "add-log-head" -> addLogHeadStart(r, wok)
      [] r.ep = "get-sth" -> getSTHStart(r, wok)
      [] r.ep = "get-sth-consistency" -> getSTHConsistencyStart(r, wok)
      [] r.ep = "get-proof-by-hash" -> getProofByHashStart(r, wok)
      [] r.ep = "get-entries" -> getEntriesStart(r, wok)
      [] r.ep = "get-log-keys" -> getLogKeysStart(r, wok)

\* a.handler from the backend's reply on.
HandlerFinish(r, call, reply, wok) ==
    CASE r.ep = "add-log-head" -> addLogHeadFinish(r, call, reply, wok)
      [] r.ep = "get-sth" -> getSTHFinish(r, call, reply, wok)
      [] r.ep = "get-sth-consistency" -> getSTHConsistencyFinish(r, call, reply, wok)
      [] r.ep = "get-proof-by-hash" -> getProofByHashFinish(r, call, reply, wok)
      [] r.ep = "get-entries" -> getEntriesFinish(r, call, reply, wok)

\* ServeHTTP after the handler returned (status, err): the writer it leaves.
ServeHTTPEnd(h) ==
    IF h.err # "" THEN sendHTTPError(h.w, h.status, h.err)
    ELSE IF h.status # StatusOK
    THEN sendHTTPError(h.w, StatusInternalServerError, "http handler misbehaved")
    ELSE h.w

\* Where the handler's step h leaves the request.
Continue(h) ==
    CASE h.kind = "rpc" ->
            /\ pc' = "rpc"
            /\ calls' = Append(calls, h.call)
            /\ UNCHANGED <<ret, w>>
      [] h.kind = "panic" ->
            /\ pc' = "done"
            /\ ret' = [status |-> 0, err |-> "panic"]
            /\ UNCHANGED <<calls, w>>
      [] h.kind = "ret" ->
            /\ pc' = "done"
            /\ ret' = [status |-> h.status, err |-> h.err]
            /\ w' = ServeHTTPEnd(h)
            /\ UNCHANGED calls

\* ServeHTTP on request r, up to the handler's backend call or to the end.
ServeHTTP(r, wok) ==
    /\ pc = "idle"
    /\ req' = r
    /\ IF r.method # MethodOf(r.ep)
       THEN /\ pc' = "done"
            /\ w' = sendHTTPError(NewWriter, StatusMethodNotAllowed, "method not allowed")
            /\ UNCHANGED <<calls, ret>>
       ELSE IF r.method = "GET" /\ ~r.formOK
       THEN /\ pc' = "done"
            /\ w' = sendHTTPError(NewWriter, StatusBadRequest, "failed to parse form data")
            /\ UNCHANGED <<calls, ret>>
       ELSE Continue(HandlerStart(r, wok))
    /\ UNCHANGED <<cryptoMap, opts, rsp>>
    /\ UNCHANGED scanVars

\* The backend answers the call in flight and the handler runs to its end.
BackendReply(reply, wok) ==
    /\ pc = "rpc"
    /\ rsp' = reply
    /\ Continue(HandlerFinish(req, calls[Len(calls)], reply, wok))
    /\ UNCHANGED <<cryptoMap, opts, req>>
    /\ UNCHANGED scanVars

NoReq == [ep |-> "", method |-> "", formOK |-> TRUE, body |-> NoBody, form |-> NoForm]

AddLogHead ==
    /\ pc = "idle"
    /\ \E r \in RequestsOf("add-log-head"), wok \in BOOLEAN : ServeHTTP(r, wok)

AddLogHeadReply ==
    /\ req.ep = "add-log-head"
    /\ \E reply \in QueueLeavesReplies, wok \in BOOLEAN : BackendReply(reply, wok)

GetSTH ==
    /\ pc = "idle"
    /\ \E r \in RequestsOf("get-sth"), wok \in BOOLEAN : ServeHTTP(r, wok)

GetSTHReply ==
    /\ req.ep = "get-sth"
    /\ \E reply \in GetLatestSignedLogRootReplies, wok \in BOOLEAN : BackendReply(reply, wok)

GetSTHConsistency ==
    /\ pc = "idle"
    /\ \E r \in RequestsOf("get-sth-consistency"), wok \in BOOLEAN : ServeHTTP(r, wok)

GetSTHConsistencyReply ==
    /\ req.ep = "get-sth-consistency"
    /\ \E reply \in GetConsistencyProofReplies, wok \in BOOLEAN : BackendReply(reply, wok)

GetProofByHash ==
    /\ pc = "idle"
    /\ \E r \in RequestsOf("get-proof-by-hash"), wok \in BOOLEAN : ServeHTTP(r, wok)

GetProofByHashReply ==
    /\ req.ep = "get-proof-by-hash"
    /\ \E reply \in GetInclusionProofByHashReplies, wok \in BOOLEAN : BackendReply(reply, wok)

GetEntries ==
    /\ pc = "idle"
    /\ \E r \in RequestsOf("get-entries"), wok \in BOOLEAN : ServeHTTP(r, wok)

GetEntriesReply ==
    /\ req.ep = "get-entries"
    /\ \E reply \in GetLeavesByRangeReplies, wok \in BOOLEAN : BackendReply(reply, wok)

GetLogKeys ==
    /\ pc = "idle"
    /\ \E r \in RequestsOf("get-log-keys"), wok \in BOOLEAN : ServeHTTP(r, wok)

\* The response is out; the server takes the next request.
NextRequest ==
    /\ pc = "done"
    /\ pc' = "idle"
    /\ req' = NoReq
    /\ calls' = <<>>
    /\ rsp' = NoRsp
    /\ ret' = NoRet
    /\ w' = NewWriter
    /\ UNCHANGED <<cryptoMap, opts>>
    /\ UNCHANGED scanVars

---------------------------------------------------------------------------
(* The hub after newHubInfo, and the scanner before Scan is called. *)

\* The registry of the hubs that serve no submissions.
OneLogRegistry == [u \in {<<1>>} |-> 0]

\* Values of opts.MaxGetEntries.
MaxGetEntriesValues == {0, 1, 2}

ScanInit ==
    /\ spc = "start"
    /\ n = 0
    /\ ts = 0
    /\ m = 0
    /\ chunk = [err |-> "", Leaves |-> <<>>, Skew |-> None]
    /\ g = [StartIndex |-> 0, Count |-> 0]
    /\ delivered = <<>>
    /\ lastLeaf = None
    /\ result = ""

HubInit(registries, maxGetEntries) ==
    /\ cryptoMap \in registries
    /\ opts \in [MaxGetEntries : maxGetEntries, ErrorMapper : ErrorMappers]
    /\ pc = "idle"
    /\ req = NoReq
    /\ calls = <<>>
    /\ rsp = NoRsp
    /\ ret = NoRet
    /\ w = NewWriter

\* A hub with any registry, serving submissions and key listings.
SubmitInit == HubInit(Registries, {0}) /\ ScanInit

SubmitNext == AddLogHead \/ AddLogHeadReply \/ GetLogKeys \/ NextRequest

SubmitSpec == SubmitInit /\ [][SubmitNext]_vars

\* A hub serving heads and proofs.
ProofInit == HubInit({OneLogRegistry}, {0}) /\ ScanInit

ProofNext ==
    \/ GetSTH
    \/ GetSTHReply
    \/ GetSTHConsistency
    \/ GetSTHConsistencyReply
    \/ GetProofByHash
    \/ GetProofByHashReply
    \/ NextRequest

ProofSpec == ProofInit /\ [][ProofNext]_vars

\* A hub with any maximum page size, serving ranges of entries.
EntriesInit == HubInit({OneLogRegistry}, MaxGetEntriesValues) /\ ScanInit

EntriesNext == GetEntries \/ GetEntriesReply \/ NextRequest

EntriesSpec == EntriesInit /\ [][EntriesNext]_vars

---------------------------------------------------------------------------
(* trillianClient.Scan.  The scanner's backend is the environment; a leaf   *)
(* stands for the index the backend gave it.  log.Fatalf ends the process.  *)

CHUNK == 10

\* The tree sizes of a log root, and of a skew, which may be nonsense.
ScanTreeSizes == -1..MaxTree

SkewTreeSizes == -1..MaxTree

\* The consumer's results: nil, or an error.
LeafResults == {"", "consumer failed"}

GetRootReplies ==
    [err : RpcErrors, SignedLogRoot : {None}]
    \cup {[err |-> "", SignedLogRoot |-> None]}
    \cup {[err |-> "", SignedLogRoot |-> Some([TreeSize |-> t])] : t \in ScanTreeSizes}

\* The Skew of a reply: nil, present with no tree size, or a revised size.
Skews ==
    {None, Some([TreeSizeSet |-> FALSE, TreeSize |-> 0])}
    \cup {Some([TreeSizeSet |-> TRUE, TreeSize |-> t]) : t \in SkewTreeSizes}

\* The leaves of a reply: len leaves, the backend's leaves from index base
\* on, the one at position nilAt (if any) nil.
ChunkLeaves(len, base, nilAt) ==
    [j \in 1..len |-> IF j = nilAt THEN None ELSE Some([LeafIndex |-> base + j - 1])]

\* The replies to a request for the leaves from start on: an error, or leaves
\* (possibly none, more than asked for, or with a nil) and a skew.
ChunkReplies(start) ==
    [err : RpcErrors, Leaves : {<<>>}, Skew : {None}]
    \cup {[err |-> "", Leaves |-> ChunkLeaves(len, start, nilAt), Skew |-> skew] :
            len \in 0..(CHUNK + 1), nilAt \in {0, 1, 3}, skew \in Skews}

NoChunk == [err |-> "", Leaves |-> <<>>, Skew |-> None]

\* r.Skew.GetTreeSizeSet()
GetTreeSizeSet(skew) == skew # None /\ skew[1].TreeSizeSet

\* ts after "deal with server skew"
AdoptSkew(size, skew) == IF GetTreeSizeSet(skew) THEN skew[1].TreeSize ELSE size

\* The reply is what a backend with a tree of size leaves that revises
\* nothing answers to request rq: the valid leaves from the requested index
\* on, at least one and at most the count asked for.
HonestReply(rq, size, reply) ==
    /\ reply.err = ""
    /\ ~GetTreeSizeSet(reply.Skew)
    /\ Len(reply.Leaves) >= 1
    /\ Len(reply.Leaves) <= rq.Count
    /\ rq.StartIndex + Len(reply.Leaves) <= size
    /\ reply.Leaves = ChunkLeaves(Len(reply.Leaves), rq.StartIndex, 0)

\* Scan asks for the latest log root and takes its tree size for ts.
ScanGetRoot ==
    /\ spc = "start"
    /\ \E reply \in GetRootReplies :
          IF reply.err # ""
          THEN /\ spc' = "fatal"
               /\ UNCHANGED ts
          ELSE IF reply.SignedLogRoot = None
          THEN /\ spc' = "panic"
               /\ UNCHANGED ts
          ELSE /\ spc' = "loop"
               /\ ts' = reply.SignedLogRoot[1].TreeSize
    /\ UNCHANGED <<n, m, chunk, g, delivered, lastLeaf, result>>
    /\ UNCHANGED hubVars

\* The outer loop with the test n <= ts.
ScanRequest_Inclusive ==
    /\ spc = "loop"
    /\ n <= ts
    /\ g' = [StartIndex |-> n, Count |-> CHUNK]
    /\ spc' = "wait"
    /\ UNCHANGED <<n, ts, m, chunk, delivered, lastLeaf, result>>
    /\ UNCHANGED hubVars

\* The outer loop's test holds: request the chunk at the cursor.
ScanRequest ==
    /\ spc = "loop"
    /\ n < ts
    /\ g' = [StartIndex |-> n, Count |-> CHUNK]
    /\ spc' = "wait"
    /\ UNCHANGED <<n, ts, m, chunk, delivered, lastLeaf, result>>
    /\ UNCHANGED hubVars

\* The outer loop's test fails: Scan returns nil.
ScanReturn ==
    /\ spc = "loop"
    /\ ~(n < ts)
    /\ result' = "nil"
    /\ spc' = "returned"
    /\ UNCHANGED <<n, ts, m, chunk, g, delivered, lastLeaf>>
    /\ UNCHANGED hubVars

\* ScanReply without the check for progress.
ScanReply_NoProgressCheck ==
    /\ spc = "wait"
    /\ \E reply \in ChunkReplies(g.StartIndex) :
          /\ chunk' = reply
          /\ IF reply.err # ""
             THEN /\ spc' = "fatal"
                  /\ UNCHANGED <<ts, m>>
             ELSE /\ ts' = AdoptSkew(ts, reply.Skew)
                  /\ m' = 0
                  /\ spc' = "deliver"
    /\ UNCHANGED <<n, g, delivered, lastLeaf, result>>
    /\ UNCHANGED hubVars

\* The backend answers the chunk request: Scan adopts a revised tree size and
\* checks for progress.
ScanReply ==
    /\ spc = "wait"
    /\ \E reply \in ChunkReplies(g.StartIndex) :
          /\ chunk' = reply
          /\ IF reply.err # ""
             THEN /\ spc' = "fatal"
                  /\ UNCHANGED <<ts, m>>
             ELSE /\ ts' = AdoptSkew(ts, reply.Skew)
                  /\ m' = 0
                  /\ spc' = IF n < ts' /\ Len(reply.Leaves) = 0 THEN "fatal" ELSE "deliver"
    /\ UNCHANGED <<n, g, delivered, lastLeaf, result>>
    /\ UNCHANGED hubVars

\* The inner loop's test holds and the leaf is nil.
ScanNilLeaf ==
    /\ spc = "deliver"
    /\ m < Len(chunk.Leaves) /\ n < ts
    /\ chunk.Leaves[m + 1] = None
    /\ spc' = "fatal"
    /\ UNCHANGED <<n, ts, m, chunk, g, delivered, lastLeaf, result>>
    /\ UNCHANGED hubVars

\* The consumer's call in a loop that leaves the cursor where it is.
Deliver_StuckCursor(idx) ==
    /\ delivered' = Append(delivered, idx)
    /\ lastLeaf' = chunk.Leaves[m + 1]
    /\ \E err \in LeafResults :
          IF err # ""
          THEN /\ result' = err
               /\ spc' = "returned"
               /\ UNCHANGED <<n, m>>
          ELSE /\ m' = m + 1
               /\ UNCHANGED <<n, result, spc>>
    /\ UNCHANGED <<ts, chunk, g>>
    /\ UNCHANGED hubVars

\* The consumer's call in a loop that does not step through the chunk.
Deliver_SameLeaf(idx) ==
    /\ delivered' = Append(delivered, idx)
    /\ lastLeaf' = chunk.Leaves[m + 1]
    /\ \E err \in LeafResults :
          IF err # ""
          THEN /\ result' = err
               /\ spc' = "returned"
               /\ UNCHANGED <<n, m>>
          ELSE /\ n' = n + 1
               /\ UNCHANGED <<m, result, spc>>
    /\ UNCHANGED <<ts, chunk, g>>
    /\ UNCHANGED hubVars

\* The consumer's call with its error noted and the loop going on.
Deliver_GoOn(idx) ==
    /\ delivered' = Append(delivered, idx)
    /\ lastLeaf' = chunk.Leaves[m + 1]
    /\ \E err \in LeafResults :
          /\ result' = IF err # "" THEN err ELSE result
          /\ n' = n + 1
          /\ m' = m + 1
          /\ UNCHANGED spc
    /\ UNCHANGED <<ts, chunk, g>>
    /\ UNCHANGED hubVars

\* The consumer's call with the index idx and the leaf at m, and what
\* follows it: Scan returns the consumer's error, or moves on.
Deliver(idx) ==
    /\ delivered' = Append(delivered, idx)
    /\ lastLeaf' = chunk.Leaves[m + 1]
    /\ \E err \in LeafResults :
          IF err # ""
          THEN /\ result' = err
               /\ spc' = "returned"
               /\ UNCHANGED <<n, m>>
          ELSE /\ n' = n + 1
               /\ m' = m + 1
               /\ UNCHANGED <<result, spc>>
    /\ UNCHANGED <<ts, chunk, g>>
    /\ UNCHANGED hubVars

\* ScanLeaf handing the consumer the position in the chunk for the index.
ScanLeaf_ChunkIndex ==
    /\ spc = "deliver"
    /\ m < Len(chunk.Leaves) /\ n < ts
    /\ chunk.Leaves[m + 1] # None
    /\ Deliver(m)

\* ScanLeaf with an inner loop that does not test the cursor against ts.
ScanLeaf_NoSizeCheck ==
    /\ spc = "deliver"
    /\ m < Len(chunk.Leaves)
    /\ chunk.Leaves[m + 1] # None
    /\ Deliver(n)

\* The inner loop's test holds and the leaf is there: the consumer gets
\* (n, leaf).
ScanLeaf ==
    /\ spc = "deliver"
    /\ m < Len(chunk.Leaves) /\ n < ts
    /\ chunk.Leaves[m + 1] # None
    /\ Deliver(n)

\* The inner loop's test fails: back to the outer loop; r, m and the leaves
\* of r are gone.
ScanChunkDone ==
    /\ spc = "deliver"
    /\ ~(m < Len(chunk.Leaves) /\ n < ts)
    /\ spc' = "loop"
    /\ chunk' = NoChunk
    /\ m' = 0
    /\ lastLeaf' = None
    /\ UNCHANGED <<n, ts, g, delivered, result>>
    /\ UNCHANGED hubVars

ScanNext ==
    \/ ScanGetRoot
    \/ ScanRequest
    \/ ScanReturn
    \/ ScanReply
    \/ ScanNilLeaf
    \/ ScanLeaf
    \/ ScanChunkDone

\* A scanner beside a hub that serves nothing.
ScanSpecInit ==
    /\ ScanInit
    /\ cryptoMap = OneLogRegistry
    /\ opts = [MaxGetEntries |-> 0, ErrorMapper |-> "none"]
    /\ pc = "idle"
    /\ req = NoReq
    /\ calls = <<>>
    /\ rsp = NoRsp
    /\ ret = NoRet
    /\ w = NewWriter

ScanSpec == ScanSpecInit /\ [][ScanNext]_vars

\* The scanner with any backend whose tree sizes stay bounded, where Scan
\* runs on and the backend answers every call.
BoundedGetRoot == ScanGetRoot /\ ts' <= MaxFairTree

BoundedReply == ScanReply /\ ts' <= MaxFairTree

ScanFairNext ==
    \/ BoundedGetRoot
    \/ ScanRequest
    \/ ScanReturn
    \/ BoundedReply
    \/ ScanNilLeaf
    \/ ScanLeaf
    \/ ScanChunkDone

ScanFairSpec == ScanSpecInit /\ [][ScanFairNext]_vars /\ WF_vars(ScanFairNext)

\* The scanner with a backend that reports a tree size, never revises it and
\* answers every chunk request with the valid leaves from the requested index
\* on: ts is the size the backend reported throughout.
HonestGetRoot == ScanGetRoot /\ spc' = "loop" /\ ts' >= 0

HonestReplyStep == ScanReply /\ HonestReply(g, ts, chunk')

HonestScanNext ==
    \/ HonestGetRoot
    \/ ScanRequest
    \/ ScanReturn
    \/ HonestReplyStep
    \/ ScanLeaf
    \/ ScanChunkDone

\* Scan runs on and the backend answers: no step that can be taken waits
\* for ever.
HonestScanSpec ==
    ScanSpecInit /\ [][HonestScanNext]_vars /\ WF_vars(HonestScanNext)

---------------------------------------------------------------------------
(* Properties of the submission handler. *)

\* The request being served is a well-formed POST to add-log-head whose
\* body parses.
ParsedSubmission ==
    /\ req.ep = "add-log-head"
    /\ req.method = "POST"
    /\ req.body.kind = "json"

\* The handler returned status with an error, that status went out, and the
\* backend was never called.
RejectedBeforeBackend(status) ==
    /\ pc = "done"
    /\ ret.status = status
    /\ ret.err # ""
    /\ w.code = status
    /\ calls = <<>>
    /\ rsp = NoRsp

\* C1: a submission whose source URL is not in the key registry returns
\* NotFound (404) and issues no backend call, whatever the parsed body and the
\* registry.
C1_UnknownSourceNotFound ==
    (ParsedSubmission /\ req.body.SourceURL \notin DOMAIN cryptoMap)
        => RejectedBeforeBackend(StatusNotFound)

\* An unknown source, in a hub that knows another one, with a signature that
\* would verify under a key of the registry.
C1_Witness ==
    /\ ParsedSubmission
    /\ req.body.SourceURL \notin DOMAIN cryptoMap
    /\ \E u \in DOMAIN cryptoMap : Verify(cryptoMap[u], req.body.HeadData, req.body.Signature)
    /\ ret.status = StatusNotFound

\* C2: a submission whose source URL is known but whose signature does not
\* verify over the head data under that source's key returns a validation
\* error (400) and issues no backend call.
C2_BadSignatureRejected ==
    (/\ ParsedSubmission
     /\ req.body.SourceURL \in DOMAIN cryptoMap
     /\ req.body.Signature # Sign(cryptoMap[req.body.SourceURL], req.body.HeadData))
        => RejectedBeforeBackend(StatusBadRequest)

\* A known source with a signature that is valid, but under the other key.
C2_Witness ==
    /\ ParsedSubmission
    /\ req.body.SourceURL \in DOMAIN cryptoMap
    /\ \E k \in Keys \ {cryptoMap[req.body.SourceURL]} :
          req.body.Signature = Sign(k, req.body.HeadData)
    /\ ret.status = StatusBadRequest

---------------------------------------------------------------------------
(* Properties of the consistency handler. *)

\* The integers a parameter's text denotes: none, or one.
Denoted(text) ==
    {v \in SampleInts : text = Decimal(v) \/ text = <<"+">> \o Decimal(v)}

\* The request being served is a GET of ep that reached the handler.
Handled(ep) ==
    /\ req.ep = ep
    /\ req.method = "GET"
    /\ req.formOK

\* The request is a get-sth-consistency with first = 0 and second >= 0.
FromEmptyTree ==
    /\ Handled("get-sth-consistency")
    /\ 0 \in Denoted(FormValue(req, "first"))
    /\ \E v \in Denoted(FormValue(req, "second")) : 0 <= v /\ v <= MaxInt

\* The response is a success that carries the empty proof.
EmptyProofAnswer ==
    /\ ret = [status |-> StatusOK, err |-> ""]
    /\ w = [code |-> StatusOK, ctype |-> "application/json",
            body |-> <<[Consistency |-> emptyProof]>>]

\* C3 as stated: with first = 0 the request always returns success with an
\* empty proof and makes no backend call, for any second >= 0.
C3_AlwaysEmptyProof ==
    FromEmptyTree => (pc = "done" /\ calls = <<>> /\ rsp = NoRsp /\ EmptyProofAnswer)

\* C3, amended: with first = 0 the request makes no backend call for any
\* second >= 0, and returns success with an empty proof unless writing the
\* response fails, which returns an internal error (500).
C3_EmptyProofUnlessWriteFails ==
    FromEmptyTree =>
        /\ pc = "done"
        /\ calls = <<>>
        /\ rsp = NoRsp
        /\ \/ EmptyProofAnswer
           \/ /\ ret = [status |-> StatusInternalServerError,
                        err |-> "failed to write response data"]
              /\ \A i \in 1..Len(w.body) : "Consistency" \notin DOMAIN w.body[i]

\* first = 0 with a second far above it, answered with the empty proof.
C3_Witness ==
    /\ FromEmptyTree
    /\ MaxInt \in Denoted(FormValue(req, "second"))
    /\ EmptyProofAnswer

\* C4: a get-sth-consistency request in which first or second is missing,
\* not an integer, negative, or in which first > second is rejected with a
\* client error (400) before any backend call; the backend's consistency
\* proof is only ever asked for with 0 < first <= second.
C4_BadRangeRejected ==
    Handled("get-sth-consistency") =>
        LET firstVal == FormValue(req, "first")
            secondVal == FormValue(req, "second")
            bad == \/ firstVal = <<>>
                   \/ secondVal = <<>>
                   \/ Denoted(firstVal) = {}
                   \/ Denoted(secondVal) = {}
                   \/ \E v \in Denoted(firstVal) \cup Denoted(secondVal) : v < 0
                   \/ \E a \in Denoted(firstVal), b \in Denoted(secondVal) : a > b
        IN  /\ bad => RejectedBeforeBackend(StatusBadRequest)
            /\ \A i \in 1..Len(calls) :
                  /\ calls[i].rpc = "GetConsistencyProof"
                  /\ calls[i].FirstTreeSize \in Denoted(firstVal)
                  /\ calls[i].SecondTreeSize \in Denoted(secondVal)
                  /\ 0 < calls[i].FirstTreeSize
                  /\ calls[i].FirstTreeSize <= calls[i].SecondTreeSize

\* A request with integers first > second >= 0, rejected.
C4_Witness ==
    /\ Handled("get-sth-consistency")
    /\ \E a \in Denoted(FormValue(req, "first")), b \in Denoted(FormValue(req, "second")) :
          0 <= b /\ b < a /\ a <= MaxInt
    /\ RejectedBeforeBackend(StatusBadRequest)

---------------------------------------------------------------------------
(* Properties of the inclusion proof handler. *)

\* C7: in get-proof-by-hash, a backend reply with no RPC error and zero
\* proofs yields NotFound (404): never a success, and no audit path, empty
\* or not, is written.
C7_NoProofIsNotFound ==
    (/\ Handled("get-proof-by-hash")
     /\ pc = "done"
     /\ calls # <<>>
     /\ rsp.err = ""
     /\ Len(rsp.Proof) = 0)
        => /\ ret.status = StatusNotFound
           /\ ret.err # ""
           /\ w.code = StatusNotFound
           /\ \A i \in 1..Len(w.body) : "AuditPath" \notin DOMAIN w.body[i]

\* A reply with no proof from a backend whose tree is large enough.
C7_Witness ==
    /\ Handled("get-proof-by-hash")
    /\ pc = "done"
    /\ calls # <<>>
    /\ rsp.err = ""
    /\ Len(rsp.Proof) = 0
    /\ rsp.SignedLogRoot # None
    /\ rsp.SignedLogRoot[1].TreeSize >= calls[1].TreeSize
    /\ ret.status = StatusNotFound

---------------------------------------------------------------------------
(* Properties of the range export handler. *)

\* The request is a get-entries whose start and end are int64 values with
\* 0 <= start <= end.
AcceptedRange(start, end) ==
    /\ Handled("get-entries")
    /\ start \in Denoted(FormValue(req, "start"))
    /\ end \in Denoted(FormValue(req, "end"))
    /\ 0 <= start
    /\ start <= end
    /\ end <= MaxInt

\* The configured maximum page size: 1000 when configured as 0.
PageSize == IF opts.MaxGetEntries = 0 THEN defaultMaxGetEntries ELSE opts.MaxGetEntries

\* C5: for every accepted get-entries request the backend's ranged read is
\* issued from start with a count in 1..M, M the maximum page size, and with
\* exactly M when the span end - start + 1 is wider than M.
C5_CountClamped ==
    \A start \in SampleInts, end \in SampleInts :
        AcceptedRange(start, end) =>
            /\ Len(calls) = 1
            /\ calls[1].rpc = "GetLeavesByRange"
            /\ calls[1].StartIndex = start
            /\ calls[1].Count \in 1..PageSize
            /\ (end - start + 1 > PageSize) => calls[1].Count = PageSize

\* The backend answered the ranged read without an RPC error, and some leaf
\* of the reply has an index other than that of its place.
IndexMismatch ==
    /\ Handled("get-entries")
    /\ pc = "done"
    /\ calls # <<>>
    /\ rsp.err = ""
    /\ \E i \in 1..Len(rsp.Leaves) : rsp.Leaves[i].LeafIndex # calls[1].StartIndex + (i - 1)

\* Nothing of an entry list is in the response.
NoEntriesWritten == \A i \in 1..Len(w.body) : "Entries" \notin DOMAIN w.body[i]

\* The reply's signed log root says the tree does not reach start.
TreeTooSmall ==
    /\ rsp.SignedLogRoot # None
    /\ rsp.SignedLogRoot[1].TreeSize <= calls[1].StartIndex

\* C6 as stated: a leaf whose index differs from start + i makes the response
\* an internal error (500) with nothing of the entry list written.
C6_IndexMismatchIs500 ==
    IndexMismatch =>
        /\ ret.status = StatusInternalServerError
        /\ w.code = StatusInternalServerError
        /\ NoEntriesWritten

\* C6, amended: a leaf whose index differs from start + i makes the response
\* an error with nothing of the entry list written: a client error (400) when
\* the reply's tree size is at or below start, an internal error (500)
\* otherwise.
C6_IndexMismatchIsError ==
    IndexMismatch =>
        /\ ret.err # ""
        /\ NoEntriesWritten
        /\ ret.status = IF TreeTooSmall THEN StatusBadRequest ELSE StatusInternalServerError
        /\ w.code = ret.status

\* A reply within the requested count whose first leaf is right and whose
\* second is not, from a tree that reaches start.
C6_Witness ==
    /\ IndexMismatch
    /\ ~TreeTooSmall
    /\ Len(rsp.Leaves) = 2
    /\ calls[1].Count >= 2
    /\ rsp.Leaves[1].LeafIndex = calls[1].StartIndex
    /\ LeafValueOK(rsp.Leaves[1])
    /\ ret.status = StatusInternalServerError

---------------------------------------------------------------------------
(* Properties of the leaf scanner. *)

\* The consumer has reported no failure.
ConsumerContent == result \in {"", "nil"}

\* The consumer has been given the indices 0 .. n-1 in that order, and the
\* leaf it was given last is the backend's leaf at the index given with it.
DeliveredInOrder ==
    /\ delivered = [i \in 1..n |-> i - 1]
    /\ lastLeaf # None => lastLeaf[1].LeafIndex = delivered[Len(delivered)]

Revision ==
    /\ spc = "wait"
    /\ chunk'.err = ""
    /\ GetTreeSizeSet(chunk'.Skew)

\* C9: a reply that revises the tree size changes ts alone, neither the
\* cursor nor what has been delivered; whenever the cursor is at or beyond
\* ts after a reply, the consumer is not called, no chunk is requested and
\* Scan goes on only to return nil; and the consumer is only ever given an
\* index above all those it was given before.
C9_RevisionOnlyMovesTheEnd ==
    [][ /\ Revision =>
              /\ ts' = chunk'.Skew[1].TreeSize
              /\ n' = n
              /\ delivered' = delivered
              /\ ts' <= n => spc' = "deliver"
        /\ (spc \in {"deliver", "loop"} /\ ts <= n) =>
              /\ delivered' = delivered
              /\ n' = n
              /\ ts' = ts
              /\ g' = g
              /\ spc' \in {"loop", "returned"}
              /\ spc' = "returned" => result' = "nil"
        /\ \/ delivered' = delivered
           \/ /\ delivered' = Append(delivered, n)
              /\ \A i \in 1..Len(delivered) : delivered[i] < n
      ]_vars

C9_Witness ==
    /\ spc = "deliver"
    /\ GetTreeSizeSet(chunk.Skew)
    /\ ts = chunk.Skew[1].TreeSize
    /\ 0 < ts /\ ts < n
    /\ m = 0
    /\ Len(chunk.Leaves) > 0
    /\ Len(delivered) = n

\* C10: a reply without error and without leaves, while the cursor is below
\* the tree size as revised by that reply, takes Scan to the fatal exit with
\* no call of the consumer, and nothing happens after a fatal exit.
C10_NoProgressIsFatal ==
    [][ /\ spc # "fatal"
        /\ (spc = "wait" /\ chunk'.err = "" /\ Len(chunk'.Leaves) = 0 /\ n < ts') =>
              /\ spc' = "fatal"
              /\ delivered' = delivered
              /\ g' = g
      ]_vars

C10_Witness ==
    /\ spc = "fatal"
    /\ chunk.err = ""
    /\ Len(chunk.Leaves) = 0
    /\ GetTreeSizeSet(chunk.Skew)
    /\ ts = chunk.Skew[1].TreeSize
    /\ 0 < n /\ n < ts
    /\ Len(delivered) = n

---------------------------------------------------------------------------
(* Properties of the leaf encoding. *)

\* Decoding the encoding of (s, h, sig) gives (s, h, sig) and leaves no byte.
RoundTrips(s, h, sig) ==
    LET leaf == [SourceURL |-> s, HeadData |-> h, Signature |-> sig]
        enc == tlsMarshal(leaf)
    IN  /\ enc.ok
        /\ tlsUnmarshal(enc.data) = [ok |-> TRUE, leaf |-> leaf, rest |-> <<>>]

\* C11: the encoding of every triple of byte strings, empty ones included,
\* decodes to that triple with no trailing bytes; and the leaf a submission
\* appends decodes to the submission's source URL, head data and signature
\* and passes the decode check of get-entries.
C11_LeafRoundTrips ==
    /\ \A s \in URLs \cup Bytes, h \in Bytes, sig \in Signatures : RoundTrips(s, h, sig)
    /\ (ParsedSubmission /\ calls # <<>>) =>
          /\ Len(calls[1].Leaves) = 1
          /\ tlsUnmarshal(calls[1].Leaves[1].LeafValue) =
                [ok |-> TRUE,
                 leaf |-> [SourceURL |-> req.body.SourceURL,
                           HeadData |-> req.body.HeadData,
                           Signature |-> req.body.Signature],
                 rest |-> <<>>]
          /\ LeafValueOK(calls[1].Leaves[1])

\* A submission with empty head data, appended.
C11_Witness ==
    /\ ParsedSubmission
    /\ pc = "rpc"
    /\ calls # <<>>
    /\ req.body.HeadData = <<>>
    /\ LeafValueOK(calls[1].Leaves[1])

---------------------------------------------------------------------------
(* Properties of the error status mapper. *)

\* The fixed table of the mapper, category by category.
TableStatus ==
    [c \in Codes |->
        IF c = "OK" THEN 200
        ELSE IF c \in {"Canceled", "DeadlineExceeded"} THEN 408
        ELSE IF c \in {"InvalidArgument", "OutOfRange", "AlreadyExists"} THEN 400
        ELSE IF c = "NotFound" THEN 404
        ELSE IF c \in {"PermissionDenied", "ResourceExhausted"} THEN 403
        ELSE IF c = "Unauthenticated" THEN 401
        ELSE IF c = "FailedPrecondition" THEN 412
        ELSE IF c = "Aborted" THEN 409
        ELSE IF c = "Unimplemented" THEN 501
        ELSE IF c = "Unavailable" THEN 503
        ELSE 500]

\* The status the mapper is to give for a backend error: the hook's when one
\* is configured and accepts the error, else 500 for an error without a
\* category, else the table's.
MappedStatus(err) ==
    IF opts.ErrorMapper # "none" /\ ErrorMapper(opts.ErrorMapper, err).ok
    THEN ErrorMapper(opts.ErrorMapper, err).status
    ELSE IF err \notin Codes THEN 500
    ELSE TableStatus[err]

\* The backend call of the request failed at the RPC level.
BackendFailed ==
    /\ pc = "done"
    /\ calls # <<>>
    /\ rsp.err # ""

\* C12: for every backend error, with and without a hook, the status the
\* mapper gives the submission handler is the hook's if the hook accepts the
\* error, else internal-error if the error has no category, else the table's.
C12_MapperTable ==
    (ParsedSubmission /\ BackendFailed) => ret.status = MappedStatus(rsp.err)

\* An error the table maps to 404 and the configured hook to 410.
C12_Witness ==
    /\ ParsedSubmission
    /\ BackendFailed
    /\ opts.ErrorMapper = "gone"
    /\ rsp.err = "NotFound"
    /\ ret.status = 410

---------------------------------------------------------------------------
(* Properties of the submission handler's append. *)

\* The submission parsed, names a known source and carries a signature that
\* verifies under that source's key.
ValidSubmission ==
    /\ ParsedSubmission
    /\ req.body.SourceURL \in DOMAIN cryptoMap
    /\ Verify(cryptoMap[req.body.SourceURL], req.body.HeadData, req.body.Signature)

\* The canonical encoding of the submission being served.
SubmittedLeaf ==
    tlsMarshal([SourceURL |-> req.body.SourceURL,
                HeadData |-> req.body.HeadData,
                Signature |-> req.body.Signature]).data

Queued(outcome) ==
    /\ req.ep = "add-log-head"
    /\ pc = "done"
    /\ calls # <<>>
    /\ rsp.err = ""
    /\ rsp.rsp # None
    /\ rsp.rsp[1].QueuedLeaves = <<outcome>>

\* C14: the response to a submission the backend queued is the same whether
\* the backend took the leaf as fresh or as a duplicate: status 200, no
\* error, nothing written to the body.
C14_DuplicateNotRevealed ==
    \A outcome \in {"OK", "AlreadyExists"} :
        Queued(outcome) =>
            /\ ret = [status |-> StatusOK, err |-> ""]
            /\ w = NewWriter

\* A submission the backend took as a duplicate, answered with success.
C14_Witness ==
    /\ Queued("AlreadyExists")
    /\ ret.status = StatusOK
    /\ w.body = <<>>

\* C15: whenever the backend call of a request fails at the RPC level, the
\* handler returns the status the error status mapper gives for that error,
\* and that status goes out.
C15_BackendErrorMapped ==
    BackendFailed =>
        /\ ret.status = MappedStatus(rsp.err)
        /\ w.code = ret.status

---------------------------------------------------------------------------
(* Properties of the range export's response. *)

\* The backend answered the ranged read without an RPC error.
EntriesAnswered ==
    /\ Handled("get-entries")
    /\ pc = "done"
    /\ calls # <<>>
    /\ rsp.err = ""

\* The payload is a canonical encoding: it decodes and nothing follows it.
Decodes(payload) ==
    /\ tlsUnmarshal(payload).ok
    /\ tlsUnmarshal(payload).rest = <<>>

\* The reply has more leaves than were asked for, or a payload that does not
\* decode or has trailing bytes.
BadEntriesReply ==
    \/ Len(rsp.Leaves) > calls[1].Count
    \/ \E i \in 1..Len(rsp.Leaves) : ~Decodes(rsp.Leaves[i].LeafValue)

\* A successful response holds the reply's payloads, in the reply's order and
\* as received; they are no more than were asked for and the i-th has the
\* backend index start + i.
ExactEntries ==
    (EntriesAnswered /\ ret.status = StatusOK) =>
        /\ ret.err = ""
        /\ w.code = StatusOK
        /\ Len(w.body) = 1
        /\ w.body[1].Entries.elems =
              [i \in 1..Len(rsp.Leaves) |-> [LeafData |-> rsp.Leaves[i].LeafValue]]
        /\ Len(rsp.Leaves) <= calls[1].Count
        /\ \A i \in 1..Len(rsp.Leaves) :
              rsp.Leaves[i].LeafIndex = calls[1].StartIndex + (i - 1)

\* C16 as stated: a successful response holds exactly the reply's payloads,
\* and a reply with too many leaves or a bad payload yields an internal
\* error (500).
C16_ExactEntriesOr500 ==
    /\ ExactEntries
    /\ (EntriesAnswered /\ BadEntriesReply) =>
          /\ ret.status = StatusInternalServerError
          /\ w.code = StatusInternalServerError
          /\ NoEntriesWritten

\* C16, amended: a successful response holds exactly the reply's payloads,
\* and a reply with too many leaves or a bad payload yields an error with no
\* entries written: a client error (400) when the reply's tree size is at or
\* below start, an internal error (500) otherwise.
C16_ExactEntriesOrError ==
    /\ ExactEntries
    /\ (EntriesAnswered /\ BadEntriesReply) =>
          /\ ret.err # ""
          /\ ret.status = IF TreeTooSmall THEN StatusBadRequest ELSE StatusInternalServerError
          /\ w.code = ret.status
          /\ NoEntriesWritten

\* Two leaves of the backend, forwarded.
C16_Witness ==
    /\ EntriesAnswered
    /\ ret.status = StatusOK
    /\ Len(rsp.Leaves) = 2
    /\ Len(w.body[1].Entries.elems) = 2
    /\ w.body[1].Entries.elems[2].LeafData = rsp.Leaves[2].LeafValue

---------------------------------------------------------------------------
(* Properties of the proof handlers' checks of the backend's reply. *)

\* The backend answered the call of a GET of ep without an RPC error.
Answered(ep) ==
    /\ Handled(ep)
    /\ pc = "done"
    /\ calls # <<>>
    /\ rsp.err = ""

\* No proof, under either name, is in the response.
NoProofWritten ==
    \A i \in 1..Len(w.body) :
        "Consistency" \notin DOMAIN w.body[i] /\ "AuditPath" \notin DOMAIN w.body[i]

\* C17: in get-sth-consistency with first > 0, a reply without RPC error
\* whose tree size is below second yields a client error (400) and no proof,
\* whatever the proof in the reply: present or not, with good hashes or bad.
C17_SmallTreeIsBadRequest ==
    (/\ Answered("get-sth-consistency")
     /\ rsp.SignedLogRoot # None
     /\ rsp.SignedLogRoot[1].TreeSize < calls[1].SecondTreeSize)
        => /\ calls[1].FirstTreeSize > 0
           /\ ret.status = StatusBadRequest
           /\ ret.err # ""
           /\ w.code = StatusBadRequest
           /\ NoProofWritten

\* A tree smaller than second, in a reply whose proof has a node of the wrong
\* length.
C17_Witness ==
    /\ Answered("get-sth-consistency")
    /\ rsp.SignedLogRoot # None
    /\ rsp.SignedLogRoot[1].TreeSize < calls[1].SecondTreeSize
    /\ rsp.Proof # None
    /\ \E i \in 1..Len(rsp.Proof[1].Hashes.elems) : Len(rsp.Proof[1].Hashes.elems[i]) # Sha256Size
    /\ ret.status = StatusBadRequest

\* The hash parameter is missing, empty or not base64, or tree_size is
\* missing, not an int64, or below 1.
BadProofRequest ==
    \/ FormValue(req, "hash") = <<>>
    \/ ~DecodeString(FormValue(req, "hash")).ok
    \/ ~\E v \in Denoted(FormValue(req, "tree_size")) : 1 <= v /\ v <= MaxInt

\* C18: in get-proof-by-hash, a reply without RPC error whose tree size is
\* below the requested tree_size yields NotFound (404) and no proof, whatever
\* proofs it holds; and a request with a bad hash or tree_size is rejected
\* with a client error (400) before any backend call.
C18_SmallTreeIsNotFound ==
    Handled("get-proof-by-hash") =>
        /\ BadProofRequest => RejectedBeforeBackend(StatusBadRequest)
        /\ (/\ Answered("get-proof-by-hash")
            /\ rsp.SignedLogRoot # None
            /\ rsp.SignedLogRoot[1].TreeSize < calls[1].TreeSize)
              => /\ ret.status = StatusNotFound
                 /\ ret.err # ""
                 /\ w.code = StatusNotFound
                 /\ NoProofWritten

\* A tree smaller than asked for, in a reply that holds a well-formed proof.
C18_Witness ==
    /\ Answered("get-proof-by-hash")
    /\ rsp.SignedLogRoot # None
    /\ rsp.SignedLogRoot[1].TreeSize < calls[1].TreeSize
    /\ Len(rsp.Proof) > 0
    /\ Len(rsp.Proof[1].Hashes.elems) > 0
    /\ \A i \in 1..Len(rsp.Proof[1].Hashes.elems) : Len(rsp.Proof[1].Hashes.elems[i]) = Sha256Size
    /\ ret.status = StatusNotFound

\* The request is a GET of one of the two proof entrypoints, answered by the
\* backend without an RPC error.
ProofAnswered == Answered("get-sth-consistency") \/ Answered("get-proof-by-hash")

\* Some node of the path is not of the digest's length.
BadNode(path) == \E i \in 1..Len(path.elems) : Len(path.elems[i]) # 32

\* The proofs of the reply: the one of a consistency reply, if any, or all
\* those of an inclusion reply.
BackendProofs ==
    IF req.ep = "get-sth-consistency"
    THEN IF rsp.Proof = None THEN <<>> ELSE <<rsp.Proof[1].Hashes>>
    ELSE [i \in 1..Len(rsp.Proof) |-> rsp.Proof[i].Hashes]

\* The reply's tree is smaller than the request needs.
ProofTreeTooSmall ==
    /\ rsp.SignedLogRoot # None
    /\ rsp.SignedLogRoot[1].TreeSize <
          (IF req.ep = "get-sth-consistency" THEN calls[1].SecondTreeSize ELSE calls[1].TreeSize)

\* Every node of every proof in the response has the digest's length.
WrittenProofsWellFormed ==
    \A i \in 1..Len(w.body) :
        /\ "Consistency" \in DOMAIN w.body[i] => ~BadNode(w.body[i].Consistency)
        /\ "AuditPath" \in DOMAIN w.body[i] => ~BadNode(w.body[i].AuditPath)

\* C19 as stated: a proof in a response has only nodes of 32 bytes, and a
\* backend proof (the first of the reply, the one that would be returned)
\* with a node of another length yields an internal error (500) and no proof
\* in the response.
C19_BadNodeIs500 ==
    /\ req.ep \in {"get-sth-consistency", "get-proof-by-hash"} => WrittenProofsWellFormed
    /\ (ProofAnswered /\ Len(BackendProofs) > 0 /\ BadNode(BackendProofs[1])) =>
          /\ ret.status = StatusInternalServerError
          /\ w.code = StatusInternalServerError
          /\ NoProofWritten

\* C19, amended: a proof in a response has only nodes of 32 bytes, and a
\* reply whose proof (for get-proof-by-hash: whose first proof, the one that
\* would be returned) has a node of another length yields an error and no
\* proof in the response: 400 (get-sth-consistency) or 404
\* (get-proof-by-hash) when the reply's tree size is too small, else 500.
C19_BadNodeIsError ==
    /\ req.ep \in {"get-sth-consistency", "get-proof-by-hash"} => WrittenProofsWellFormed
    /\ (ProofAnswered /\ Len(BackendProofs) > 0 /\ BadNode(BackendProofs[1])) =>
          /\ ret.err # ""
          /\ ret.status = IF ~ProofTreeTooSmall THEN StatusInternalServerError
                          ELSE IF req.ep = "get-sth-consistency" THEN StatusBadRequest
                          ELSE StatusNotFound
          /\ w.code = ret.status
          /\ NoProofWritten

\* An inclusion proof whose first node is right and whose second is not,
\* from a tree that is large enough.
C19_Witness ==
    /\ Answered("get-proof-by-hash")
    /\ ~ProofTreeTooSmall
    /\ Len(rsp.Proof) = 1
    /\ Len(rsp.Proof[1].Hashes.elems) = 2
    /\ Len(rsp.Proof[1].Hashes.elems[1]) = 32
    /\ Len(rsp.Proof[1].Hashes.elems[2]) # 32
    /\ ret.status = StatusInternalServerError

\* C20: in the step in which the consumer reports failure Scan returns that
\* failure, the consumer having been called for the cursor's index and the
\* cursor staying there; and nothing happens after Scan has returned: no
\* delivery of the chunk's remaining leaves, no request, no consumer call.
C20_ConsumerFailureStops ==
    [][ /\ spc # "returned"
        /\ (result' \notin {"", "nil"}) =>
              /\ spc = "deliver"
              /\ spc' = "returned"
              /\ result' = "consumer failed"
              /\ delivered' = Append(delivered, n)
              /\ n' = n
              /\ m' = m
              /\ g' = g
              /\ ts' = ts
      ]_vars

\* The consumer failed in the middle of a chunk, in the middle of the tree.
C20_Witness ==
    /\ spc = "returned"
    /\ result = "consumer failed"
    /\ 0 < m
    /\ m + 1 < Len(chunk.Leaves)
    /\ n + 1 < ts
    /\ delivered = [i \in 1..(n + 1) |-> i - 1]

---------------------------------------------------------------------------
(* Properties of the scanner's cursor. *)

\* Scan returns nil in this step.
ReturnsNil == spc # "returned" /\ spc' = "returned" /\ result' = "nil"

\* Scan is in its loops with the cursor at or beyond the tree size.
AtEnd(reached) ==
    /\ spc \in {"loop", "deliver"}
    /\ reached

\* With the cursor where reached says, Scan neither requests a chunk nor
\* calls the consumer nor moves the cursor, and at the outer loop's test it
\* returns nil.
StopsWhen(reached) ==
    AtEnd(reached) =>
        /\ spc' # "wait"
        /\ g' = g
        /\ delivered' = delivered
        /\ n' = n
        /\ ts' = ts
        /\ spc = "loop" => ReturnsNil

\* C21 as stated: Scan returns nil only with n = ts, and once n = ts it
\* requests nothing and delivers nothing more.
C21_ReturnsExactlyAtSize ==
    [][ /\ ReturnsNil => n' = ts'
        /\ StopsWhen(n = ts)
      ]_vars

\* C21, amended: Scan returns nil only with n >= ts, and once n >= ts it
\* requests nothing and delivers nothing more; the cursor gets beyond ts only
\* by the backend reporting a size below it, in the log root or in a reply
\* that revises ts.
C21_ReturnsAtOrBeyondSize ==
    [][ /\ ReturnsNil => (spc = "loop" /\ n' >= ts')
        /\ StopsWhen(n >= ts)
        /\ (n <= ts /\ n' > ts') => (n' = n /\ (Revision \/ spc = "start"))
      ]_vars

\* A scan of more than one chunk that returned with the cursor at the size.
C21_Witness ==
    /\ spc = "returned"
    /\ result = "nil"
    /\ n = ts
    /\ n > CHUNK
    /\ Len(delivered) = n

\* The consumer is called in this step.
ConsumerCalled == delivered' # delivered

\* A chunk request is issued in this step.
ChunkRequested == spc # "wait" /\ spc' = "wait"

\* C22: in every run the indices given to the consumer are 0, 1, 2, ... with
\* no gap and no repeat; each call is made with the cursor, below the tree
\* size believed at that moment; every chunk request starts at the cursor;
\* and the leaf given with index n is the element at offset n - StartIndex
\* of the reply to the current request.
C22_DeliveredInOrder ==
    [][ /\ delivered' = [i \in 1..Len(delivered') |-> i - 1]
        /\ ConsumerCalled =>
              /\ delivered' = Append(delivered, n)
              /\ n < ts
              /\ n - g.StartIndex + 1 \in 1..Len(chunk.Leaves)
              /\ lastLeaf' = chunk.Leaves[n - g.StartIndex + 1]
              /\ lastLeaf' # None
        /\ ChunkRequested => g' = [StartIndex |-> n, Count |-> CHUNK]
      ]_vars

\* A leaf from inside a later chunk whose reply revised the tree size.
C22_Witness ==
    /\ spc = "deliver"
    /\ g.StartIndex > 0
    /\ GetTreeSizeSet(chunk.Skew)
    /\ m > 1
    /\ lastLeaf = chunk.Leaves[m]
    /\ delivered[Len(delivered)] = g.StartIndex + m - 1

\* Scan is over: it returned, or the process ended.
ScanEnded == spc \in {"returned", "fatal", "panic"}

\* C23: a chunk request that follows another starts at a cursor strictly
\* above the start of that other, so no index is requested twice; and, the
\* believed tree size being bounded, Scan comes to an end: it returns or
\* aborts.
C23_ScanEnds ==
    /\ [][(ChunkRequested /\ g.Count # 0) => g'.StartIndex > g.StartIndex]_vars
    /\ <>ScanEnded

\* A third chunk request, each one above the one before.
C23_Witness ==
    /\ spc = "wait"
    /\ g.StartIndex > 1
    /\ g.StartIndex < CHUNK
    /\ n = g.StartIndex
    /\ ts > n

---------------------------------------------------------------------------
(* Properties of the response status. *)

\* The handler of the request ran and returned.
HandlerReturned ==
    /\ pc = "done"
    /\ ret.status # 0

\* C24: when the handler returns an error the response has a status outside
\* 200..299, and when it returns a status other than 200 without an error
\* the response has status 500; so a response has status 200 only if the
\* handler returned without error.
C24_SuccessOnlyWithoutError ==
    HandlerReturned =>
        /\ ret.err # "" => w.code \notin 200..299
        /\ (ret.err = "" /\ ret.status # StatusOK) => w.code = StatusInternalServerError

===========================================================================
